---- MODULE Spec2Model ----
(***************************************************************************)
(* Model of informedsearch/GPS-BestFirst.py: the Map (a graph of cities    *)
(* with coordinates and neighbour lists), Route, and the search engine     *)
(* GPSGreedyBestFirst with its fringe (a list kept ordered by add_route,   *)
(* popped at the tail by next_route) and its visited list.                 *)
(*                                                                         *)
(* Both the fringe and the visited list are attributes of the engine       *)
(* object, created once in __init__ and never cleared, so the model keeps  *)
(* them across the search calls made on one engine.                        *)
(*                                                                         *)
(* Coordinates are integers taken from a point set whose pairwise          *)
(* distances are whole numbers, so the square root of                      *)
(* calc_cartesian_distance is computed exactly.                            *)
(***************************************************************************)
EXTENDS Integers, Sequences, FiniteSets, TLC

\* ------------------------------------------------------------------ bounds
\* number of cities of the Map
NumNodes == 4
\* number of search calls made on one engine object
MaxSearches == 2
\* number of add_route / next_route calls in the fringe-only specification
MaxCalls == 5

VARIABLES
    map,          \* Map: city id -> [lat, lon, neighbours]
    fringe,       \* GPSGreedyBestFirst.__fringe : list of Route
    visited,      \* GPSGreedyBestFirst.__visited : list of city ids
    pc,           \* position of the engine: idle, running, found, exhausted, error
    origin,       \* origin.id of the current search call
    destination,  \* destination.id of the current search call
    result,       \* value returned by the last finished search call
    searches,     \* number of search calls started on this engine
    expanded,     \* ids appended to visited by the current call, in order
    added,        \* routes passed to add_route by the last step, in order
    log           \* direct calls of the fringe operations or of the Map lookups

vars == <<map, fringe, visited, pc, origin, destination, result, searches,
          expanded, added, log>>

\* ----------------------------------------------------------------- helpers
Range(s) == {s[i] : i \in 1..Len(s)}

Last(s) == s[Len(s)]

\* body(value), the value being computed once
Let(value, body(_)) == CHOOSE r \in {body(x) : x \in {value}} : TRUE

\* exact square root (the Layout below only produces perfect squares)
ISqrt(n) == Let(n, LAMBDA v : CHOOSE r \in 0..v : r * r = v)

\* ------------------------------------------------------------------ the Map
Nodes == 1..NumNodes

\* value standing for Python's None (search returns it when no route is found)
None == [cities_ids |-> <<>>, cost |-> -1, evaluation |-> -1]

\* value standing for the KeyError raised by Map[id] on an unknown id
KeyError == -1

\* the coordinates of the cities, by id: cities 1, 3 and 2 lie on one line
\* in that order, city 4 lies off it; all pairwise distances are whole numbers
Layout == << <<0, 0>>, <<16, 0>>, <<5, 0>>, <<0, 12>>, <<-9, 0>>, <<-5, 0>> >>

\* the links a Map may have: between cities of consecutive ids, and the
\* links 1-3 and 2-4
Pairs == {{i, i + 1} : i \in 1..(NumNodes - 1)} \cup {{1, 3}, {2, 4}}

EdgeSets == SUBSET Pairs

\* the ids of s as a list in ascending order
RECURSIVE SortedList(_)
SortedList(s) ==
    IF s = {} THEN <<>>
    ELSE LET m == CHOOSE x \in s : \A y \in s : x <= y
         IN <<m>> \o SortedList(s \ {m})

\* City(id, lat, lon, neighbours); links are written in both neighbour lists
City(id, E) ==
    [id         |-> id,
     latitude   |-> Layout[id][1],
     longitude  |-> Layout[id][2],
     neighbours |-> SortedList({n \in Nodes : {id, n} \in E})]

\* the Maps the searches are run on, one for every set of links
Maps == {[id \in Nodes |-> City(id, E)] : E \in EdgeSets}

\* Map.get_neighbours
GetNeighbours(id) == IF id \in DOMAIN map THEN map[id].neighbours ELSE <<>>

\* calc_cartesian_distance that looks up only its first id and gives 0 when
\* the second is unknown
CalcCartesianDistanceFirstKey(id_a, id_b) ==
    IF id_a \notin DOMAIN map THEN KeyError
    ELSE IF id_b \notin DOMAIN map THEN 0
    ELSE LET cityA == map[id_a]
             cityB == map[id_b]
         IN ISqrt((cityA.latitude - cityB.latitude) * (cityA.latitude - cityB.latitude)
                  + (cityA.longitude - cityB.longitude) * (cityA.longitude - cityB.longitude))

\* calc_cartesian_distance giving the default 0 for an unknown id
CalcCartesianDistanceDefault(id_a, id_b) ==
    IF id_a \notin DOMAIN map \/ id_b \notin DOMAIN map THEN 0
    ELSE LET cityA == map[id_a]
             cityB == map[id_b]
         IN ISqrt((cityA.latitude - cityB.latitude) * (cityA.latitude - cityB.latitude)
                  + (cityA.longitude - cityB.longitude) * (cityA.longitude - cityB.longitude))

\* calc_cartesian_distance without the square on the longitude term
CalcCartesianDistanceSigned(id_a, id_b) ==
    IF id_a \notin DOMAIN map \/ id_b \notin DOMAIN map THEN KeyError
    ELSE LET cityA == map[id_a]
             cityB == map[id_b]
         IN ISqrt((cityA.latitude - cityB.latitude) * (cityA.latitude - cityB.latitude))
            + (cityA.longitude - cityB.longitude)

\* Map.calc_cartesian_distance
CalcCartesianDistance(id_a, id_b) ==
    IF id_a \notin DOMAIN map \/ id_b \notin DOMAIN map THEN KeyError
    ELSE LET cityA == map[id_a]
             cityB == map[id_b]
         IN ISqrt((cityA.latitude - cityB.latitude) * (cityA.latitude - cityB.latitude)
                  + (cityA.longitude - cityB.longitude) * (cityA.longitude - cityB.longitude))

\* ------------------------------------------------------------------- Route
Route(cities_ids, cost, evaluation) ==
    [cities_ids |-> cities_ids, cost |-> cost, evaluation |-> evaluation]

\* Route.heuristic
Heuristic(route) == route.cost + route.evaluation

\* Route.last_city_id
LastCityId(route) == Last(route.cities_ids)

\* ------------------------------------------------------------------ fringe
InsertAt(fr, index, route) ==
    SubSeq(fr, 1, index - 1) \o <<route>> \o SubSeq(fr, index, Len(fr))

\* the for/else loop of add_route, from position index on
RECURSIVE AddRouteFrom(_, _, _)
AddRouteFrom(fr, route, index) ==
    IF index > Len(fr) THEN Append(fr, route)
    ELSE IF Heuristic(fr[index]) < Heuristic(route) THEN InsertAt(fr, index, route)
    ELSE AddRouteFrom(fr, route, index + 1)

\* add_route with the comparison turned round (before the first route of
\* greater score)
RECURSIVE AddRouteGreaterFrom(_, _, _)
AddRouteGreaterFrom(fr, route, index) ==
    IF index > Len(fr) THEN Append(fr, route)
    ELSE IF Heuristic(fr[index]) > Heuristic(route) THEN InsertAt(fr, index, route)
    ELSE AddRouteGreaterFrom(fr, route, index + 1)

AddRouteGreater(fr, route) == AddRouteGreaterFrom(fr, route, 1)

\* add_route with <= in place of < (before the first route of equal or
\* smaller score)
RECURSIVE AddRouteLessEqFrom(_, _, _)
AddRouteLessEqFrom(fr, route, index) ==
    IF index > Len(fr) THEN Append(fr, route)
    ELSE IF Heuristic(fr[index]) <= Heuristic(route) THEN InsertAt(fr, index, route)
    ELSE AddRouteLessEqFrom(fr, route, index + 1)

AddRouteLessEq(fr, route) == AddRouteLessEqFrom(fr, route, 1)

\* add_route without the scan: the route always goes to the tail
AddRouteAppend(fr, route) == Append(fr, route)

\* GPSGreedyBestFirst.add_route
AddRoute(fr, route) == AddRouteFrom(fr, route, 1)

\* next_route popping the head of the list (pop(0)) instead of the tail
NextRouteHead(fr) == [route |-> fr[1], fringe |-> SubSeq(fr, 2, Len(fr))]

\* GPSGreedyBestFirst.next_route: the route returned and the fringe left
NextRoute(fr) == [route |-> fr[Len(fr)], fringe |-> SubSeq(fr, 1, Len(fr) - 1)]

\* the neighbour's route costing only its last step (route.cost not added)
NeighbourRouteLastStep(route, neighbour_id, dest) ==
    Route(Append(route.cities_ids, neighbour_id),
          CalcCartesianDistance(LastCityId(route), neighbour_id),
          CalcCartesianDistance(dest, neighbour_id))

\* the Route that add_routes_for_neighbours builds for a neighbour
NeighbourRoute(route, neighbour_id, dest) ==
    Route(Append(route.cities_ids, neighbour_id),
          CalcCartesianDistance(LastCityId(route), neighbour_id) + route.cost,
          CalcCartesianDistance(dest, neighbour_id))

\* the loop of add_routes_for_neighbours over the neighbour list, from
\* position i on; st = [fringe, added, error]
RECURSIVE NeighboursLoop(_, _, _, _, _, _)
NeighboursLoop(st, vis, route, dest, list, i) ==
    IF i > Len(list) THEN st
    ELSE LET neighbour_id == list[i]
         IN IF neighbour_id \in Range(vis)
            THEN NeighboursLoop(st, vis, route, dest, list, i + 1)
            ELSE LET distance_from_last_city ==
                         CalcCartesianDistance(LastCityId(route), neighbour_id)
                     distance_to_destination ==
                         CalcCartesianDistance(dest, neighbour_id)
                 IN IF distance_from_last_city = KeyError
                       \/ distance_to_destination = KeyError
                    THEN [st EXCEPT !.error = TRUE]
                    ELSE Let(NeighbourRoute(route, neighbour_id, dest),
                             LAMBDA neighbour_route :
                                Let([fringe |-> AddRoute(st.fringe, neighbour_route),
                                     added  |-> Append(st.added, neighbour_route),
                                     error  |-> FALSE],
                                    LAMBDA s : NeighboursLoop(s, vis, route, dest, list, i + 1)))

\* GPSGreedyBestFirst.add_routes_for_neighbours
AddRoutesForNeighbours(fr, vis, route, dest) ==
    NeighboursLoop([fringe |-> fr, added |-> <<>>, error |-> FALSE],
                   vis, route, dest, GetNeighbours(LastCityId(route)), 1)

\* ------------------------------------------------------------ the engine
\* GPSGreedyBestFirst.__init__
Init ==
    /\ map \in Maps
    /\ fringe = <<>>
    /\ visited = <<>>
    /\ pc = "idle"
    /\ origin = 0
    /\ destination = 0
    /\ result = None
    /\ searches = 0
    /\ expanded = <<>>
    /\ added = <<>>
    /\ log = <<>>

\* search(origin, destination), up to the while loop: the initial route is
\* added to whatever fringe the engine holds
SearchStart(o, d) ==
    /\ pc \in {"idle", "found", "exhausted", "error"}
    /\ searches < MaxSearches
    /\ LET distance_to_destination == CalcCartesianDistance(o, d)
           ini_route == Route(<<o>>, 0, distance_to_destination)
       IN IF distance_to_destination = KeyError
          THEN /\ pc' = "error"
               /\ added' = <<>>
               /\ UNCHANGED fringe
          ELSE /\ pc' = "running"
               /\ fringe' = AddRoute(fringe, ini_route)
               /\ added' = <<ini_route>>
    /\ origin' = o
    /\ destination' = d
    /\ result' = None
    /\ searches' = searches + 1
    /\ expanded' = <<>>
    /\ UNCHANGED <<map, visited, log>>

\* one iteration of the while loop that ends in `return curr_route`
SearchFound ==
    /\ pc = "running"
    /\ fringe # <<>>
    /\ LET nr == NextRoute(fringe)
           curr_route == nr.route
       IN /\ LastCityId(curr_route) = destination
          /\ fringe' = nr.fringe
          /\ result' = curr_route
          /\ pc' = "found"
          /\ added' = <<>>
    /\ UNCHANGED <<map, visited, origin, destination, searches, expanded, log>>

\* the expanding iteration without `self.__visited.append(...)`
SearchExpandNoVisit ==
    /\ pc = "running"
    /\ fringe # <<>>
    /\ \E nr \in {NextRoute(fringe)} :
       \E st \in {AddRoutesForNeighbours(nr.fringe, visited, nr.route, destination)} :
          /\ LastCityId(nr.route) # destination
          /\ expanded' = Append(expanded, LastCityId(nr.route))
          /\ fringe' = st.fringe
          /\ added' = st.added
          /\ pc' = IF st.error THEN "error" ELSE "running"
    /\ UNCHANGED <<map, visited, origin, destination, result, searches, log>>

\* one iteration of the while loop that expands the popped route
SearchExpand ==
    /\ pc = "running"
    /\ fringe # <<>>
    /\ \E nr \in {NextRoute(fringe)} :
       \E vis \in {Append(visited, LastCityId(nr.route))} :
       \E st \in {AddRoutesForNeighbours(nr.fringe, vis, nr.route, destination)} :
          /\ LastCityId(nr.route) # destination
          /\ visited' = vis
          /\ expanded' = Append(expanded, LastCityId(nr.route))
          /\ fringe' = st.fringe
          /\ added' = st.added
          /\ pc' = IF st.error THEN "error" ELSE "running"
    /\ UNCHANGED <<map, origin, destination, result, searches, log>>

\* the loop without its else branch: on an empty fringe the call spins and
\* never returns
SearchExhaustedSpin ==
    /\ pc = "running"
    /\ fringe = <<>>
    /\ UNCHANGED vars

\* the else branch of the while loop: the fringe is empty, return None
SearchExhausted ==
    /\ pc = "running"
    /\ fringe = <<>>
    /\ pc' = "exhausted"
    /\ result' = None
    /\ added' = <<>>
    /\ UNCHANGED <<map, fringe, visited, origin, destination, searches, expanded, log>>

Next ==
    \/ \E o \in Nodes, d \in Nodes : SearchStart(o, d)
    \/ SearchFound
    \/ SearchExpand
    \/ SearchExhausted

Spec == Init /\ [][Next]_vars

\* the while loop of search: one iteration, or its else branch
SearchLoop == SearchExhausted \/ SearchFound \/ SearchExpand

\* the engine on the Maps whose links are among 1-2, 2-3, 1-3 and 3-4
InitLive ==
    /\ Init
    /\ \E E \in SUBSET {{1, 2}, {2, 3}, {1, 3}, {3, 4}} :
          map = [id \in Nodes |-> City(id, E)]

\* search is synchronous and single-threaded: once called, its loop keeps
\* running until it returns
LiveSpec == InitLive /\ [][Next]_vars /\ WF_vars(SearchLoop)

\* ------------------------------------------- the fringe operations alone
\* routes handed to add_route directly: two ids, scores 3, 5, 6 and 8
FringeRoutes == {Route(<<k>>, c, e) : k \in 1..2, c \in {0, 3}, e \in {3, 5}}

\* a Map without links (the fringe operations never consult the Map)
InitFringe ==
    /\ Init
    /\ map = [id \in Nodes |-> City(id, {})]

\* a direct call add_route(route) on the engine
CallAddRoute(route) ==
    /\ pc = "idle"
    /\ Len(log) < MaxCalls
    /\ fringe' = AddRoute(fringe, route)
    /\ added' = <<route>>
    /\ log' = Append(log, [op |-> "add_route", route |-> route])
    /\ UNCHANGED <<map, visited, pc, origin, destination, result, searches, expanded>>

\* a direct call next_route() on the engine (list.pop raises on an empty
\* list and leaves it empty, so only calls on a non-empty fringe are steps)
CallNextRoute ==
    /\ pc = "idle"
    /\ Len(log) < MaxCalls
    /\ fringe # <<>>
    /\ fringe' = NextRoute(fringe).fringe
    /\ added' = <<>>
    /\ log' = Append(log, [op |-> "next_route", route |-> NextRoute(fringe).route])
    /\ UNCHANGED <<map, visited, pc, origin, destination, result, searches, expanded>>

NextFringe ==
    \/ \E route \in FringeRoutes : CallAddRoute(route)
    \/ CallNextRoute

SpecFringe == InitFringe /\ [][NextFringe]_vars

\* ------------------------------------------- searches with unknown ids
\* the Maps with links among 1-2, 2-3 and 1-3 in which the neighbour list of
\* one city also names a city the Map does not have: id 0, which comes first
\* in the list, or id NumNodes + 1, which comes last
DanglingMaps ==
    {[id \in Nodes |->
         IF id = c
         THEN [City(id, E) EXCEPT
                  !.neighbours = SortedList({n \in Nodes : {id, n} \in E} \cup {k})]
         ELSE City(id, E)] :
     E \in SUBSET {{1, 2}, {2, 3}, {1, 3}}, c \in Nodes, k \in {0, NumNodes + 1}}

\* a new engine on a Map with a dangling neighbour id
InitUnknownKey ==
    /\ map \in DanglingMaps
    /\ fringe = <<>>
    /\ visited = <<>>
    /\ pc = "idle"
    /\ origin = 0
    /\ destination = 0
    /\ result = None
    /\ searches = 0
    /\ expanded = <<>>
    /\ added = <<>>
    /\ log = <<>>

\* searches whose origin and destination are cities of the Map or the
\* unknown city 0
NextUnknownKey ==
    \/ \E o \in Nodes \cup {0}, d \in Nodes \cup {0} : SearchStart(o, d)
    \/ SearchFound
    \/ SearchExpand
    \/ SearchExhausted

SpecUnknownKey == InitUnknownKey /\ [][NextUnknownKey]_vars

\* ----------------------------------------------- the Map lookups alone
\* ids handed to the lookups: the ids of the Map, and two ids it does not have
Keys == 0..(NumNodes + 1)

\* a direct call Map.get_neighbours(id); the lookups keep no state, log holds
\* the call just made and what it gave
CallGetNeighbours(id) ==
    /\ pc = "idle"
    /\ log' = <<[op |-> "get_neighbours", ids |-> <<id>>, value |-> GetNeighbours(id)]>>
    /\ UNCHANGED <<map, fringe, visited, pc, origin, destination, result, searches,
                   expanded, added>>

\* a direct call Map.calc_cartesian_distance(id_a, id_b)
CallCalcCartesianDistance(id_a, id_b) ==
    /\ pc = "idle"
    /\ log' = <<[op |-> "calc_cartesian_distance", ids |-> <<id_a, id_b>>,
                 value |-> CalcCartesianDistance(id_a, id_b)]>>
    /\ UNCHANGED <<map, fringe, visited, pc, origin, destination, result, searches,
                   expanded, added>>

NextMap ==
    \/ \E id \in Keys : CallGetNeighbours(id)
    \/ \E id_a \in Keys, id_b \in Keys : CallCalcCartesianDistance(id_a, id_b)

SpecMap == Init /\ [][NextMap]_vars

\* --------------------------------------------------- notions the claims use
\* cities reachable from S by at most k neighbour links
RECURSIVE Reach(_, _)
Reach(S, k) ==
    IF k = 0 THEN S
    ELSE Reach(S \cup {n \in Nodes : \E m \in S : n \in Range(GetNeighbours(m))}, k - 1)

\* cities reachable from o by a chain of neighbour links (o included)
Reachable(o) == Reach({o}, NumNodes)

\* the search call has returned
Returned == pc \in {"found", "exhausted"}

\* loop iterations (pops from the fringe) performed by the current call
Pops == Len(expanded) + (IF pc = "found" THEN 1 ELSE 0)

NoDuplicates(s) == \A i, j \in 1..Len(s) : i # j => s[i] # s[j]

\* ids is a path from o to d along neighbour links
IsPath(ids, o, d) ==
    /\ Len(ids) >= 1
    /\ ids[1] = o
    /\ Last(ids) = d
    /\ \A i \in 2..Len(ids) : ids[i] \in Range(GetNeighbours(ids[i - 1]))

\* ------------------------------------------------------------------ claims

\* C1: on a finite Map with known origin and destination, every search call
\* that has started returns (found or exhausted) after finitely many
\* iterations, on the first and on every later call of the engine.
C1_SearchTerminates == (pc = "running") ~> (pc \in {"found", "exhausted"})

\* a later call on the same engine has returned after expanding two cities
C1_Witness == searches = 2 /\ Returned /\ Len(expanded) >= 2

\* C2: within one search call no city id is expanded more than once, and the
\* number of loop iterations never exceeds the number of cities.
C2_ExpandedAtMostOnce == NoDuplicates(expanded) /\ Pops <= NumNodes

\* C3: search returns None only when the destination is not reachable from
\* the origin, on the first and on every later call of the engine.
C3_ReachableIsFound ==
    pc = "exhausted" => destination \notin Reachable(origin)

\* C4: every returned route is a path from the origin of this call to its
\* destination along neighbour links.
C4_ReturnedRouteIsPath ==
    pc = "found" => IsPath(result.cities_ids, origin, destination)

\* C5: when a search call has inserted its initial route, the visited list is
\* empty and the fringe holds the initial route only.
C5_SearchStartsEmpty ==
    (pc = "running" /\ expanded = <<>>)
        => /\ visited = <<>>
           /\ fringe = <<Route(<<origin>>, 0, CalcCartesianDistance(origin, destination))>>

\* C6: search(k, k) returns the route [k] with cost 0 and it is the first
\* route popped: no city is expanded, whatever earlier searches left in the
\* fringe.
C6_SameOriginDestination ==
    (pc # "idle" /\ origin = destination)
        => /\ pc \in {"running", "found"}
           /\ expanded = <<>>
           /\ pc = "running" => Last(fringe) = Route(<<origin>>, 0, 0)
           /\ pc = "found" => result = Route(<<origin>>, 0, 0)

\* search(k, k) has returned on an engine whose fringe holds routes of an
\* earlier search
C6_Witness ==
    pc = "found" /\ origin = destination /\ searches = 2 /\ fringe # <<>>

\* C7 (as stated): on a fresh engine search(A, B) with B a neighbour of A
\* returns exactly [A, B] with cost distance(A, B) and estimate 0, whatever
\* other neighbours A has.
C7_DirectNeighbour ==
    (searches = 1 /\ Returned /\ destination \in Range(GetNeighbours(origin)))
        => /\ pc = "found"
           /\ result = Route(<<origin, destination>>,
                             CalcCartesianDistance(origin, destination), 0)

\* no other neighbour X of A has distance(A, X) + distance(X, B) <= distance(A, B)
NoNeighbourOnTheWay(a, b) ==
    \A x \in Range(GetNeighbours(a)) \ {b} :
        CalcCartesianDistance(a, x) + CalcCartesianDistance(b, x)
            > CalcCartesianDistance(a, b)

\* C7 (amended): on a fresh engine search(A, B) with B a neighbour of A
\* returns exactly [A, B] with cost distance(A, B) and estimate 0, provided no
\* other neighbour X of A has distance(A, X) + distance(X, B) <= distance(A, B).
C7_DirectNeighbourNoTie ==
    (/\ searches = 1
     /\ Returned
     /\ destination \in Range(GetNeighbours(origin))
     /\ NoNeighbourOnTheWay(origin, destination))
        => /\ pc = "found"
           /\ result = Route(<<origin, destination>>,
                             CalcCartesianDistance(origin, destination), 0)

\* the direct route was returned although the origin has other neighbours
C7_Witness ==
    /\ searches = 1
    /\ pc = "found"
    /\ Len(GetNeighbours(origin)) >= 2
    /\ NoNeighbourOnTheWay(origin, destination)
    /\ result.cities_ids = <<origin, destination>>

\* C8: on a fresh engine, when the destination is not reachable from the
\* origin, search returns None and visited then holds every city reachable
\* from the origin exactly once and no other city.
C8_UnreachableVisitsEachOnce ==
    (searches = 1 /\ Returned /\ destination \notin Reachable(origin))
        => /\ pc = "exhausted"
           /\ Range(visited) = Reachable(origin)
           /\ Len(visited) = Cardinality(Reachable(origin))

\* the last direct call was op
LastCall(l, op) == Len(l) > 0 /\ l[Len(l)].op = op

\* the step just taken is a direct call op
JustCalled(op) == Len(log') = Len(log) + 1 /\ LastCall(log', op)

\* the first four direct calls inserted routes with scores 5, 3, 8, 3, the
\* two routes of score 3 being different routes
Inserted5383 ==
    /\ Len(log) >= 4
    /\ \A i \in 1..4 : log[i].op = "add_route"
    /\ <<Heuristic(log[1].route), Heuristic(log[2].route),
         Heuristic(log[3].route), Heuristic(log[4].route)>> = <<5, 3, 8, 3>>
    /\ log[2].route # log[4].route

\* C9 (as stated): add_route places the new route immediately before the
\* first route, scanning from index 0, whose score is strictly greater than
\* its own, or at the end when there is none; next_route removes and returns
\* the tail. Inserting scores 5, 3, 8, 3 into an empty fringe therefore gives
\* the order 3, 3, 5, 8 and the first pop returns the route of score 8.
C9_InsertBeforeFirstGreater ==
    /\ [][JustCalled("add_route") =>
            LET route == Last(log').route
            IN \E p \in 1..(Len(fringe) + 1) :
                  /\ fringe' = InsertAt(fringe, p, route)
                  /\ \A q \in 1..(p - 1) : Heuristic(fringe[q]) <= Heuristic(route)
                  /\ p <= Len(fringe) => Heuristic(fringe[p]) > Heuristic(route)]_vars
    /\ [][JustCalled("next_route") =>
            /\ Last(log').route = Last(fringe)
            /\ fringe' = SubSeq(fringe, 1, Len(fringe) - 1)]_vars
    /\ [](Inserted5383 /\ Len(log) = 4 =>
            fringe = <<log[4].route, log[2].route, log[1].route, log[3].route>>)
    /\ [](Inserted5383 /\ Len(log) = 5 /\ LastCall(log, "next_route") =>
            log[5].route = log[3].route)

\* C9 (amended): add_route places the new route immediately before the
\* first route, scanning from index 0, whose score is strictly less than its
\* own, or at the end when there is none; next_route removes and returns the
\* tail. Inserting scores 5, 3, 8, 3 into an empty fringe therefore gives the
\* order 8, 5, 3, 3 (the later 3 last) and the first pop returns the route of
\* score 3 inserted last.
C9_InsertBeforeFirstLess ==
    /\ [][JustCalled("add_route") =>
            LET route == Last(log').route
            IN \E p \in 1..(Len(fringe) + 1) :
                  /\ fringe' = InsertAt(fringe, p, route)
                  /\ \A q \in 1..(p - 1) : Heuristic(fringe[q]) >= Heuristic(route)
                  /\ p <= Len(fringe) => Heuristic(fringe[p]) < Heuristic(route)]_vars
    /\ [][JustCalled("next_route") =>
            /\ Last(log').route = Last(fringe)
            /\ fringe' = SubSeq(fringe, 1, Len(fringe) - 1)]_vars
    /\ [](Inserted5383 /\ Len(log) = 4 =>
            fringe = <<log[3].route, log[1].route, log[2].route, log[4].route>>)
    /\ [](Inserted5383 /\ Len(log) = 5 /\ LastCall(log, "next_route") =>
            log[5].route = log[4].route)

\* scores 5, 3, 8, 3 were inserted into the empty fringe and one route popped
C9_Witness ==
    Inserted5383 /\ Len(log) = 5 /\ LastCall(log, "next_route") /\ Len(fringe) = 3

\* C10: no route whose last city is in visited is inserted into the fringe,
\* neither by neighbour expansion nor as the initial route of a search.
C10_NoRouteToVisited ==
    \A i \in 1..Len(added) : LastCityId(added[i]) \notin Range(visited)

\* C11: every route returned by search has estimate 0, the distance from its
\* last city (the destination) to the destination of the call that returns
\* it, so its score equals its cost.
C11_ReturnedEstimateZero ==
    pc = "found"
        => /\ result.evaluation = 0
           /\ result.evaluation = CalcCartesianDistance(LastCityId(result), destination)
           /\ Heuristic(result) = result.cost

\* the scores never increase from index 0 to the tail
Ordered(fr) == \A i \in 1..(Len(fr) - 1) : Heuristic(fr[i]) >= Heuristic(fr[i + 1])

\* C14: after any sequence of add_route and next_route calls the fringe is
\* ordered by non-increasing score from index 0 to the tail, and every
\* next_route call returns a route whose score is the minimum of the scores
\* in the fringe at the moment of the call.
C14_FringeOrderedPopsMinimum ==
    /\ [](Ordered(fringe))
    /\ [][JustCalled("next_route") =>
            \A q \in 1..Len(fringe) :
                Heuristic(Last(log').route) <= Heuristic(fringe[q])]_vars

C14_Witness ==
    /\ Len(log) = 5
    /\ LastCall(log, "next_route")
    /\ \A i \in 1..4 : log[i].op = "add_route"
    /\ Heuristic(log[1].route) < Heuristic(log[2].route)
    /\ Heuristic(log[3].route) > Heuristic(log[2].route)
    /\ Heuristic(log[5].route) = Heuristic(log[1].route)
    /\ Heuristic(fringe[1]) > Heuristic(fringe[3])

\* C12: get_neighbours of an id that is not in the Map returns an empty list
\* and raises nothing; calc_cartesian_distance raises whenever one of its two
\* ids is not in the Map, and returns a distance only when both are.
C12_LookupsOnUnknownKey ==
    \A i \in 1..Len(log) :
        LET call == log[i]
        IN /\ (call.op = "get_neighbours" /\ call.ids[1] \notin Nodes)
                  => call.value = <<>>
           /\ call.op = "calc_cartesian_distance"
                  => IF call.ids[1] \notin Nodes \/ call.ids[2] \notin Nodes
                     THEN call.value = KeyError
                     ELSE call.value >= 0

C12_Witness ==
    /\ log # <<>>
    /\ log[1].op = "calc_cartesian_distance"
    /\ log[1].ids[1] \in Nodes
    /\ log[1].ids[2] \notin Nodes
    /\ log[1].value = KeyError
    /\ GetNeighbours(log[1].ids[2]) = <<>>

\* C13: for all ids A and B of the Map, the distance from A to B equals the
\* distance from B to A, and the distance from A to A is 0.
C13_DistanceSymmetric ==
    \A i \in 1..Len(log) :
        LET call == log[i]
        IN (/\ call.op = "calc_cartesian_distance"
            /\ call.ids[1] \in Nodes
            /\ call.ids[2] \in Nodes)
               => /\ call.value = CalcCartesianDistance(call.ids[2], call.ids[1])
                  /\ call.ids[1] = call.ids[2] => call.value = 0

C13_Witness ==
    /\ log # <<>>
    /\ log[1].op = "calc_cartesian_distance"
    /\ log[1].ids = <<4, 2>>
    /\ log[1].value = 20

\* the position in s of the route that a last-in first-out tie rule serves:
\* the latest inserted among the routes of minimum score (s is in order of
\* insertion)
LifoMin(s) ==
    CHOOSE i \in 1..Len(s) :
        /\ \A j \in 1..Len(s) : Heuristic(s[i]) <= Heuristic(s[j])
        /\ \A j \in (i + 1)..Len(s) : Heuristic(s[i]) < Heuristic(s[j])

\* the routes inserted and not yet served after the first k calls of l, in
\* order of insertion, when every next_route serves the LifoMin route
RECURSIVE Pending(_, _)
Pending(l, k) ==
    IF k = 0 THEN <<>>
    ELSE LET before == Pending(l, k - 1)
         IN IF l[k].op = "add_route" THEN Append(before, l[k].route)
            ELSE LET i == LifoMin(before)
                 IN SubSeq(before, 1, i - 1) \o SubSeq(before, i + 1, Len(before))

\* C17: among routes of equal score the one inserted most recently is popped
\* first: add_route places the new route after every route of the fringe
\* whose score is greater than or equal to its own, and every next_route
\* call returns the latest inserted of the routes of minimum score.
C17_TiesLastInFirstOut ==
    /\ [][JustCalled("add_route") =>
            LET route == Last(log').route
            IN \E p \in 1..(Len(fringe) + 1) :
                  /\ fringe' = InsertAt(fringe, p, route)
                  /\ \A q \in 1..Len(fringe) :
                        Heuristic(fringe[q]) >= Heuristic(route) => q < p]_vars
    /\ [](\A k \in 1..Len(log) :
            log[k].op = "next_route" =>
                LET before == Pending(log, k - 1)
                IN log[k].route = before[LifoMin(before)])

C17_Witness ==
    /\ Len(log) >= 4
    /\ log[1].op = "add_route"
    /\ log[2].op = "add_route"
    /\ Heuristic(log[1].route) = Heuristic(log[2].route)
    /\ log[1].route # log[2].route
    /\ log[3].op = "next_route"
    /\ log[3].route = log[2].route
    /\ log[4].op = "next_route"
    /\ log[4].route = log[1].route

\* the sum of the distances between the consecutive cities of ids
RECURSIVE PathCost(_)
PathCost(ids) ==
    IF Len(ids) <= 1 THEN 0
    ELSE PathCost(SubSeq(ids, 1, Len(ids) - 1))
         + CalcCartesianDistance(ids[Len(ids) - 1], ids[Len(ids)])

\* C15: every route that search inserts into the fringe has a cost equal to
\* the sum of the distances between the consecutive cities of its sequence:
\* 0 for the one-city initial route, the parent's cost plus the distance
\* from the parent's last city to the neighbour for a route made by expansion.
C15_CostIsSumOfSteps ==
    /\ \A i \in 1..Len(added) : added[i].cost = PathCost(added[i].cities_ids)
    /\ \A i \in 1..Len(fringe) : fringe[i].cost = PathCost(fringe[i].cities_ids)
    /\ (pc = "running" /\ expanded = <<>>) => added[1].cost = 0

C15_Witness ==
    /\ searches = 2
    /\ \E i \in 1..Len(added) :
          /\ Len(added[i].cities_ids) = 3
          /\ added[i].cost = 31
          /\ added[i].cost = PathCost(added[i].cities_ids)

\* no city occurs twice in the route, and every city of it except the last
\* is in visited
SimpleRoute(route) ==
    /\ NoDuplicates(route.cities_ids)
    /\ \A i \in 1..(Len(route.cities_ids) - 1) : route.cities_ids[i] \in Range(visited)

\* C18: every route in the fringe, and every route search returns, is a
\* simple path: no city occurs twice in its sequence, every city of a route
\* except the last being in visited.
C18_RoutesAreSimplePaths ==
    /\ \A i \in 1..Len(fringe) : SimpleRoute(fringe[i])
    /\ \A i \in 1..Len(added) : SimpleRoute(added[i])
    /\ pc = "found" => SimpleRoute(result)

C18_Witness ==
    /\ pc = "found"
    /\ searches = 2
    /\ Len(result.cities_ids) = NumNodes
    /\ \E i \in 1..Len(fringe) : Len(fringe[i].cities_ids) >= 3

\* the sequences of at most NumNodes cities that are paths from o to d along
\* neighbour links (every simple path is one of them)
Paths(o, d) ==
    {ids \in UNION {[1..k -> Nodes] : k \in 1..NumNodes} : IsPath(ids, o, d)}

\* C19: on a fresh engine, the route search returns has the least total cost
\* of all paths from origin to destination along neighbour links: no path
\* between the two has a smaller sum of step distances.
C19_ReturnedRouteIsCheapest ==
    (searches = 1 /\ pc = "found")
        => /\ result.cities_ids \in Paths(origin, destination)
           /\ \A ids \in Paths(origin, destination) : result.cost <= PathCost(ids)

C19_Witness ==
    /\ searches = 1
    /\ pc = "found"
    /\ Len(result.cities_ids) >= 3
    /\ \E ids \in Paths(origin, destination) :
          /\ PathCost(ids) > result.cost
          /\ NoDuplicates(ids)
          /\ ids[2] < result.cities_ids[2]

\* the current call has expanded a city whose neighbour list names a city
\* that is not in the Map and not in visited
ExpandedDangling ==
    \E i \in 1..Len(expanded) :
        \E n \in Range(GetNeighbours(expanded[i])) :
            n \notin Nodes /\ n \notin Range(visited)

\* C16: a search that expands a city whose neighbour list names a city that
\* is not in the Map and not in visited, or that is called with an origin or
\* a destination that is not in the Map, ends with the KeyError of the
\* distance lookup: it returns neither a route nor None, and it does not
\* skip the unknown id and go on.
C16_UnknownKeyRaises ==
    /\ (searches > 0 /\ (origin \notin Nodes \/ destination \notin Nodes))
           => (pc = "error" /\ expanded = <<>>)
    /\ ExpandedDangling => pc = "error"
    /\ pc = "error" => result = None
    /\ \A i \in 1..Len(fringe) : LastCityId(fringe[i]) \in Nodes

C16_Witness ==
    /\ pc = "error"
    /\ origin \in Nodes
    /\ destination \in Nodes
    /\ ExpandedDangling
    /\ Len(expanded) >= 2
    /\ added # <<>>

====
